---- MODULE Spec2Model ----
(***************************************************************************)
(* KCamera Controls: the effects pipeline (backend/effects.py), the camera *)
(* backend (backend/camera.py) and the handlers of the effects panel and   *)
(* the main window that keep the pipeline and the device in step           *)
(* (ui/effects_panel.py, ui/main_window.py).                               *)
(*                                                                         *)
(* The program is single threaded: every handler runs to completion, so    *)
(* one action is one handler.  The calls a handler makes on the pipeline   *)
(* and on the camera backend are recorded, in program order, in `calls`.   *)
(***************************************************************************)
EXTENDS Integers, Sequences, FiniteSets, TLC

\* ------------------------------------------------------------------ bounds

\* Longest pipeline the model builds.
MaxLen == 3

\* Control values range over 0..MaxValue.
MaxValue == 1

\* Most device accesses that fail during one apply-all pass.
MaxFaults == 1

\* The longest text of `v4l2-ctl --list-ctrls` the parser is run on, in lines.
MaxLines == 2

\* The most key=value pairs on one line of that text.
MaxParams == 3

\* ------------------------------------------------------------ data: effects

\* EffectType values (the control name an effect targets): two of the twelve.
EffectType == {"brightness", "contrast"}

\* Effect.__init__: a new effect is enabled.  The pipeline holds references
\* to Effect objects: id names the object, and two positions with the same
\* id hold the same object.  A new object has id 0; the objects of a list
\* are numbered from 1 (Canon).
Effect(effect_type) ==
  [id |-> 0, effect_type |-> effect_type, enabled |-> TRUE]

\* The objects of a list numbered 1, 2, ... in the order of their first
\* position.  An id is only a name for an object, so renaming changes
\* nothing of the program's state; it keeps one model state per list.
FirstPos(effs, i) ==
  CHOOSE j \in 1..i :
    /\ effs[j].id = effs[i].id
    /\ \A k \in 1..(j - 1) : effs[k].id # effs[i].id

Canon(effs) ==
  [i \in 1..Len(effs) |->
     [effs[i] EXCEPT
        !.id = Cardinality({ j \in 1..FirstPos(effs, i) :
                               FirstPos(effs, j) = j })]]

Values == 0..MaxValue

\* Indices handed to the index-taking operations: negative, in range, too big.
Indices == -1..MaxLen

\* ------------------------------------------------- Python list primitives

\* list.pop(i) for 0 <= i < len: the list without position i (0-based).
ListPop(s, i) == SubSeq(s, 1, i) \o SubSeq(s, i + 2, Len(s))

\* list.insert(i, e) for 0 <= i: e lands before position i, or at the end.
ListInsert(s, i, e) ==
  IF i >= Len(s) THEN Append(s, e)
  ELSE SubSeq(s, 1, i) \o <<e>> \o SubSeq(s, i + 1, Len(s))

\* ------------------------------------------------- return values of calls

RetNone == [tag |-> "None", bool |-> FALSE, val |-> <<>>]
RetBool(b) == [tag |-> "bool", bool |-> b, val |-> <<>>]
RetEffect(e) == [tag |-> "Effect", bool |-> TRUE, val |-> <<e>>]
RetList(l) == [tag |-> "list", bool |-> TRUE, val |-> l]
RetDict(d) == [tag |-> "dict", bool |-> TRUE, val |-> <<d>>]

\* ------------------------------------------------------- EffectsPipeline
\* Each method is an operator from the list before the call to the list
\* after it (effects) and the value returned (ret).  Writing a field of
\* self.effects[index] writes the object, so every position that holds it.

\* Variant: an effect of a kind the list already holds is not added.
add_effect_Dedup(effs, effect) ==
  IF \E i \in 1..Len(effs) : effs[i].effect_type = effect.effect_type
  THEN [effects |-> effs, ret |-> RetNone]
  ELSE [effects |-> Append(effs, effect), ret |-> RetNone]

add_effect(effs, effect) ==
  [effects |-> Append(effs, effect), ret |-> RetNone]

\* Variant: the lower bound of the index test is missing, so a negative
\* index reaches list.pop, which counts it from the end.
remove_effect_NoLowerBound(effs, index) ==
  IF index < Len(effs) /\ 0 <= Len(effs) + index
  THEN [effects |-> ListPop(effs, IF index < 0 THEN Len(effs) + index
                                  ELSE index),
        ret |-> RetBool(TRUE)]
  ELSE [effects |-> effs, ret |-> RetBool(FALSE)]

remove_effect(effs, index) ==
  IF 0 <= index /\ index < Len(effs)
  THEN [effects |-> ListPop(effs, index), ret |-> RetBool(TRUE)]
  ELSE [effects |-> effs, ret |-> RetBool(FALSE)]

\* Variant: the two elements are exchanged.
\* Variant: the effect is taken out and not put back.
move_effect_Drop(effs, from_index, to_index) ==
  IF 0 <= from_index /\ from_index < Len(effs)
     /\ 0 <= to_index /\ to_index < Len(effs)
  THEN [effects |-> ListPop(effs, from_index), ret |-> RetBool(TRUE)]
  ELSE [effects |-> effs, ret |-> RetBool(FALSE)]

move_effect_Swap(effs, from_index, to_index) ==
  IF 0 <= from_index /\ from_index < Len(effs)
     /\ 0 <= to_index /\ to_index < Len(effs)
  THEN [effects |-> [effs EXCEPT ![from_index + 1] = effs[to_index + 1],
                                 ![to_index + 1] = effs[from_index + 1]],
        ret |-> RetBool(TRUE)]
  ELSE [effects |-> effs, ret |-> RetBool(FALSE)]

move_effect(effs, from_index, to_index) ==
  IF 0 <= from_index /\ from_index < Len(effs)
     /\ 0 <= to_index /\ to_index < Len(effs)
  THEN [effects |-> ListInsert(ListPop(effs, from_index), to_index,
                               effs[from_index + 1]),
        ret |-> RetBool(TRUE)]
  ELSE [effects |-> effs, ret |-> RetBool(FALSE)]

\* Variant: the flag is cleared, not negated.
toggle_effect_Disable(effs, index) ==
  IF 0 <= index /\ index < Len(effs)
  THEN [effects |->
          [i \in 1..Len(effs) |->
             IF effs[i].id = effs[index + 1].id
             THEN [effs[i] EXCEPT !.enabled = FALSE]
             ELSE effs[i]],
        ret |-> RetBool(TRUE)]
  ELSE [effects |-> effs, ret |-> RetBool(FALSE)]

toggle_effect(effs, index) ==
  IF 0 <= index /\ index < Len(effs)
  THEN [effects |->
          [i \in 1..Len(effs) |->
             IF effs[i].id = effs[index + 1].id
             THEN [effs[i] EXCEPT !.enabled = ~@]
             ELSE effs[i]],
        ret |-> RetBool(TRUE)]
  ELSE [effects |-> effs, ret |-> RetBool(FALSE)]

get_effect(effs, index) ==
  IF 0 <= index /\ index < Len(effs)
  THEN [effects |-> effs, ret |-> RetEffect(effs[index + 1])]
  ELSE [effects |-> effs, ret |-> RetNone]

clear(effs) == [effects |-> <<>>, ret |-> RetNone]

get_all_effects(effs) == [effects |-> effs, ret |-> RetList(effs)]

\* ------------------------------------------------------ Python dict values
\* A dict is a function on its keys.  A descriptor holds strings ('type',
\* 'name') and integers (the key=value pairs), so its values are tagged.

EmptyDict == [k \in {} |-> 0]

DictSet(d, key, v) ==
  [k \in DOMAIN d \cup {key} |-> IF k = key THEN v ELSE d[k]]

StrV(x) == [isint |-> FALSE, s |-> x, n |-> 0]
IntV(x) == [isint |-> TRUE, s |-> "", n |-> x]

\* dict.get(key, default) on a descriptor's integer entry.
DictGetInt(d, key, default) == IF key \in DOMAIN d THEN d[key].n ELSE default

\* ---------------------------------------------------------- CameraBackend

\* Control types that have min/max validation.
INTEGER_CONTROL_TYPES == {"int", "integer", "int64"}

\* str.lower() on the type labels the model's descriptor lines carry.
Lower(x) ==
  CASE x = "INT" -> "int"
    [] x = "Integer" -> "integer"
    [] x = "Menu" -> "menu"
    [] OTHER -> x

\* One line of `v4l2-ctl --list-ctrls` output.  form = "ctrl": the line
\* matches the descriptor pattern, with its three groups and the key=value
\* pairs of the third group in the order finditer yields them; "blank": an
\* empty line; "other": any other line (a section header).
CtrlLine(name, ctrl_type, params) ==
  [form |-> "ctrl", name |-> name, ctrl_type |-> ctrl_type, params |-> params]
BlankLine == [form |-> "blank", name |-> "", ctrl_type |-> "", params |-> <<>>]
OtherLine == [form |-> "other", name |-> "", ctrl_type |-> "", params |-> <<>>]
P(key, value) == [key |-> key, value |-> value]

\* for param_match in re.finditer(...): control[param_name] = param_value
RECURSIVE ParseParams(_, _)
ParseParams(control, params) ==
  IF params = <<>> THEN control
  ELSE ParseParams(DictSet(control, Head(params).key, IntV(Head(params).value)),
                   Tail(params))

\* Variant: a line whose control is already in the catalog adds its fields
\* to the descriptor that is there.
ParseLine_Merge(controls, line) ==
  IF line.form # "ctrl" THEN controls
  ELSE
    LET control == ParseParams(
                     [k \in {"type", "name"}
                            \cup (IF line.name \in DOMAIN controls
                                  THEN DOMAIN controls[line.name] ELSE {}) |->
                        IF k = "type" THEN StrV(line.ctrl_type)
                        ELSE IF k = "name" THEN StrV(line.name)
                        ELSE controls[line.name][k]],
                     line.params)
    IN IF Lower(line.ctrl_type) \in INTEGER_CONTROL_TYPES
       THEN IF "min" \notin DOMAIN control \/ "max" \notin DOMAIN control
            THEN controls
            ELSE IF control["min"].n > control["max"].n
                 THEN DictSet(controls, line.name,
                              [control EXCEPT !["min"] = control["max"],
                                              !["max"] = control["min"]])
                 ELSE DictSet(controls, line.name, control)
       ELSE DictSet(controls, line.name, control)

\* Variant: the range is validated for every kind.
ParseLine_ValidateAll(controls, line) ==
  IF line.form # "ctrl" THEN controls
  ELSE
    LET control == ParseParams(
                     [k \in {"type", "name"} |->
                        IF k = "type" THEN StrV(line.ctrl_type)
                        ELSE StrV(line.name)],
                     line.params)
    IN IF "min" \notin DOMAIN control \/ "max" \notin DOMAIN control
       THEN controls
       ELSE IF control["min"].n > control["max"].n
            THEN DictSet(controls, line.name,
                         [control EXCEPT !["min"] = control["max"],
                                         !["max"] = control["min"]])
            ELSE DictSet(controls, line.name, control)

\* Variant: the type label is compared as it is written, not lower-cased.
ParseLine_CaseSensitive(controls, line) ==
  IF line.form # "ctrl" THEN controls
  ELSE
    LET control == ParseParams(
                     [k \in {"type", "name"} |->
                        IF k = "type" THEN StrV(line.ctrl_type)
                        ELSE StrV(line.name)],
                     line.params)
    IN IF line.ctrl_type \in INTEGER_CONTROL_TYPES
       THEN IF "min" \notin DOMAIN control \/ "max" \notin DOMAIN control
            THEN controls
            ELSE IF control["min"].n > control["max"].n
                 THEN DictSet(controls, line.name,
                              [control EXCEPT !["min"] = control["max"],
                                              !["max"] = control["min"]])
                 ELSE DictSet(controls, line.name, control)
       ELSE DictSet(controls, line.name, control)

\* Variant: a descriptor with min > max is stored as it was read.
ParseLine_NoSwap(controls, line) ==
  IF line.form # "ctrl" THEN controls
  ELSE
    LET control == ParseParams(
                     [k \in {"type", "name"} |->
                        IF k = "type" THEN StrV(line.ctrl_type)
                        ELSE StrV(line.name)],
                     line.params)
    IN IF Lower(line.ctrl_type) \in INTEGER_CONTROL_TYPES
          /\ ("min" \notin DOMAIN control \/ "max" \notin DOMAIN control)
       THEN controls
       ELSE DictSet(controls, line.name, control)

\* Variant: a descriptor of an integer kind is stored without min or max.
ParseLine_KeepMissing(controls, line) ==
  IF line.form # "ctrl" THEN controls
  ELSE
    LET control == ParseParams(
                     [k \in {"type", "name"} |->
                        IF k = "type" THEN StrV(line.ctrl_type)
                        ELSE StrV(line.name)],
                     line.params)
    IN IF Lower(line.ctrl_type) \in INTEGER_CONTROL_TYPES
          /\ "min" \in DOMAIN control /\ "max" \in DOMAIN control
          /\ control["min"].n > control["max"].n
       THEN DictSet(controls, line.name,
                    [control EXCEPT !["min"] = control["max"],
                                    !["max"] = control["min"]])
       ELSE DictSet(controls, line.name, control)

\* The body of the loop over the lines: controls after one more line.
ParseLine(controls, line) ==
  IF line.form # "ctrl" THEN controls
  ELSE
    LET control == ParseParams(
                     [k \in {"type", "name"} |->
                        IF k = "type" THEN StrV(line.ctrl_type)
                        ELSE StrV(line.name)],
                     line.params)
    IN IF Lower(line.ctrl_type) \in INTEGER_CONTROL_TYPES
       THEN IF "min" \notin DOMAIN control \/ "max" \notin DOMAIN control
            THEN controls
            ELSE IF control["min"].n > control["max"].n
                 THEN DictSet(controls, line.name,
                              [control EXCEPT !["min"] = control["max"],
                                              !["max"] = control["min"]])
                 ELSE DictSet(controls, line.name, control)
       ELSE DictSet(controls, line.name, control)

RECURSIVE ParseLines(_, _)
ParseLines(controls, lines) ==
  IF lines = <<>> THEN controls
  ELSE ParseLines(ParseLine(controls, Head(lines)), Tail(lines))

\* get_camera_controls: the catalog it returns.  run.tool is false when
\* the backend finds no v4l2-ctl; run.ok is false when the tool exits
\* non-zero, times out or raises.
get_camera_controls(run) ==
  IF run.tool /\ run.ok THEN ParseLines(EmptyDict, run.stdout) ELSE EmptyDict

\* get_camera_controls: camera.controls after the call, old being
\* camera.controls before it.  Without the tool the function returns
\* before it reaches `camera.controls = controls`.
camera_controls(old, run) ==
  IF run.tool THEN get_camera_controls(run) ELSE old

\* get_camera_control_value: the value, or None (ok = FALSE) when the tool is
\* missing, fails, times out or prints nothing that parses.
get_camera_control_value(dv, camera, control_name, io_ok) ==
  IF io_ok /\ control_name \in DOMAIN dv[camera]
  THEN [ok |-> TRUE, value |-> dv[camera][control_name]]
  ELSE [ok |-> FALSE, value |-> 0]

\* set_camera_control: True and the device holds the value, or False and
\* the device is as it was.
set_camera_control(dv, camera, control_name, value, io_ok) ==
  IF io_ok /\ control_name \in DOMAIN dv[camera]
  THEN [ok |-> TRUE, devval |-> [dv EXCEPT ![camera][control_name] = value]]
  ELSE [ok |-> FALSE, devval |-> dv]

\* ------------------------------------------------------------ the devices

NoCamera == "None"
Cameras == {"/dev/video0", "/dev/video2"}

\* The controls each device has in hardware: /dev/video0 is the capture
\* node of a webcam, /dev/video2 a node without controls.
HwControls(camera) ==
  IF camera \in {"/dev/video0", "/mnt/dev/video0"}
  THEN {"brightness", "contrast"} ELSE {}

\* What `v4l2-ctl -d <device> --list-ctrls` prints for each device.
ListCtrlsText(camera) ==
  IF camera = "/dev/video0"
  THEN << OtherLine, BlankLine,
          CtrlLine("brightness", "int",
                   <<P("min", 0), P("max", MaxValue), P("step", 1),
                     P("default", 1)>>),
          CtrlLine("contrast", "int",
                   <<P("min", 0), P("max", MaxValue), P("step", 1)>>) >>
  ELSE << BlankLine >>

\* The outcomes of one run of the tool on a device (no device: no run).
\* The window has one backend, which found the tool when it detected the
\* device and keeps its path.
ListCtrlsRuns(camera) ==
  IF camera \in Cameras
  THEN { [tool |-> TRUE, ok |-> FALSE, stdout |-> <<>>],
         [tool |-> TRUE, ok |-> TRUE, stdout |-> ListCtrlsText(camera)] }
  ELSE { [tool |-> TRUE, ok |-> FALSE, stdout |-> <<>>] }

\* What detect_cameras can return: nothing, or both devices.
DetectResults == { <<>>, <<"/dev/video0", "/dev/video2">> }

\* ------------------------------------------------------------------ state

VARIABLES
  effects,         \* EffectsPipeline.effects: the ordered list of effects
  cameras,         \* the CameraDevice items of the camera combo box, in order
  current_camera,  \* MainWindow.current_camera: a device path, or NoCamera
  controls,        \* CameraDevice.controls of each device: its catalog
  devval,          \* the value each hardware control of each device holds
  calls,           \* the calls the last handler made, in program order
  op,              \* the last operation and its arguments
  ret,             \* what the last pipeline method called by it returned
  streak,          \* apply-all passes run back to back, counted up to 2
  stdout           \* result.stdout of the run of `v4l2-ctl --list-ctrls`
                   \* the last handler made: its lines (<<>>: no run, or
                   \* a run that failed)

vars == <<effects, cameras, current_camera, controls, devval, calls, op, ret,
          streak, stdout>>

Op(name, index, to_index, effect_type) ==
  [name |-> name, index |-> index, to_index |-> to_index,
   effect_type |-> effect_type]

\* One entry of `calls`.  call is "add_effect" or "remove_effect" (the
\* pipeline mutation of a panel handler), "get" (get_camera_control_value;
\* ok = a value came back), "set" (set_camera_control; ok = its result) or
\* "Popen" (a viewer was launched).
Call(call, camera, control, value, ok) ==
  [call |-> call, camera |-> camera, control |-> control, value |-> value,
   ok |-> ok]

\* How the backend behaves on one device access: whether the read returns
\* a value and whether the write succeeds.
IO == [get_ok : BOOLEAN, set_ok : BOOLEAN]

\* ------------------------------------------- MainWindow: the synchronizer
\* Each handler is an operator to the calls it makes and the device values
\* it leaves.  ctrls is the catalog of the current camera.

\* Variant: the test for None is missing and 0 is written when the read
\* returns no value.
Reapply_WriteOnNone(camera, dv, control_name, io) ==
  LET current_value ==
        get_camera_control_value(dv, camera, control_name, io.get_ok)
      w == set_camera_control(dv, camera, control_name, current_value.value,
                              TRUE)
  IN [calls |-> <<Call("get", camera, control_name, current_value.value,
                       current_value.ok),
                  Call("set", camera, control_name, current_value.value,
                       w.ok)>>,
      devval |-> w.devval]

\* Variant: a write that fails is tried a second time.
Reapply_RetryOnce(camera, dv, control_name, io) ==
  LET current_value ==
        get_camera_control_value(dv, camera, control_name, io.get_ok)
      getc == Call("get", camera, control_name, current_value.value,
                   current_value.ok)
      w == set_camera_control(dv, camera, control_name, current_value.value,
                              io.set_ok)
      setc == Call("set", camera, control_name, current_value.value, w.ok)
  IN IF current_value.ok
     THEN [calls |-> IF w.ok THEN <<getc, setc>> ELSE <<getc, setc, setc>>,
           devval |-> w.devval]
     ELSE [calls |-> <<getc>>, devval |-> dv]

\* The read-then-write of on_effect_added and apply_all_effects.
Reapply(camera, dv, control_name, io) ==
  LET current_value ==
        get_camera_control_value(dv, camera, control_name, io.get_ok)
      getc == Call("get", camera, control_name, current_value.value,
                   current_value.ok)
  IN IF current_value.ok
     THEN LET w == set_camera_control(dv, camera, control_name,
                                      current_value.value, io.set_ok)
          IN [calls |-> <<getc, Call("set", camera, control_name,
                                     current_value.value, w.ok)>>,
              devval |-> w.devval]
     ELSE [calls |-> <<getc>>, devval |-> dv]

\* Variant: the descriptor's default is written, not the value read.
on_effect_added_WriteDefault(camera, ctrls, dv, effect_type, io) ==
  IF camera # NoCamera /\ effect_type \in DOMAIN ctrls
  THEN LET r == Reapply(camera, dv, effect_type, io)
           d == DictGetInt(ctrls[effect_type], "default", 0)
       IN IF Len(r.calls) = 2
          THEN LET w == set_camera_control(dv, camera, effect_type, d,
                                           io.set_ok)
               IN [calls |-> <<r.calls[1],
                               Call("set", camera, effect_type, d, w.ok)>>,
                   devval |-> w.devval]
          ELSE r
  ELSE [calls |-> <<>>, devval |-> dv]

\* Variant: the test for a selected device is missing and the read is
\* attempted without one (it returns no value).
on_effect_added_NoCameraCheck(camera, ctrls, dv, effect_type, io) ==
  IF camera = NoCamera
  THEN [calls |-> <<Call("get", camera, effect_type, 0, FALSE)>>,
        devval |-> dv]
  ELSE IF effect_type \in DOMAIN ctrls
       THEN Reapply(camera, dv, effect_type, io)
       ELSE [calls |-> <<>>, devval |-> dv]

on_effect_added(camera, ctrls, dv, effect_type, io) ==
  IF camera # NoCamera /\ effect_type \in DOMAIN ctrls
  THEN Reapply(camera, dv, effect_type, io)
  ELSE [calls |-> <<>>, devval |-> dv]

\* Variant: the reset value is always 0, whatever the descriptor records.
on_effect_removed_WriteZero(camera, ctrls, dv, effect, io) ==
  IF camera # NoCamera /\ effect.effect_type \in DOMAIN ctrls
  THEN LET control_name == effect.effect_type
           w == set_camera_control(dv, camera, control_name, 0, io.set_ok)
       IN [calls |-> <<Call("set", camera, control_name, 0, w.ok)>>,
           devval |-> w.devval]
  ELSE [calls |-> <<>>, devval |-> dv]

\* Variant: the control is reset only when the removed effect was enabled.
on_effect_removed_OnlyIfEnabled(camera, ctrls, dv, effect, io) ==
  IF camera # NoCamera /\ effect.effect_type \in DOMAIN ctrls
     /\ effect.enabled
  THEN LET control_name == effect.effect_type
           default_value == DictGetInt(ctrls[control_name], "default", 0)
           w == set_camera_control(dv, camera, control_name, default_value,
                                   io.set_ok)
       IN [calls |-> <<Call("set", camera, control_name, default_value,
                            w.ok)>>,
           devval |-> w.devval]
  ELSE [calls |-> <<>>, devval |-> dv]

\* Variant: the catalog is not consulted and a control it does not list is
\* reset to 0.
on_effect_removed_NoCatalogCheck(camera, ctrls, dv, effect, io) ==
  IF camera # NoCamera
  THEN LET control_name == effect.effect_type
           default_value ==
             IF control_name \in DOMAIN ctrls
             THEN DictGetInt(ctrls[control_name], "default", 0) ELSE 0
           w == set_camera_control(dv, camera, control_name, default_value,
                                   io.set_ok)
       IN [calls |-> <<Call("set", camera, control_name, default_value,
                            w.ok)>>,
           devval |-> w.devval]
  ELSE [calls |-> <<>>, devval |-> dv]

on_effect_removed(camera, ctrls, dv, effect, io) ==
  IF camera # NoCamera /\ effect.effect_type \in DOMAIN ctrls
  THEN LET control_name == effect.effect_type
           default_value == DictGetInt(ctrls[control_name], "default", 0)
           w == set_camera_control(dv, camera, control_name, default_value,
                                   io.set_ok)
       IN [calls |-> <<Call("set", camera, control_name, default_value,
                            w.ok)>>,
           devval |-> w.devval]
  ELSE [calls |-> <<>>, devval |-> dv]

\* Variant: the value read from the control of the effect is written to
\* the other control.
ApplyOne_CrossWrite(camera, ctrls, dv, effect, io) ==
  IF effect.enabled /\ effect.effect_type \in DOMAIN ctrls
  THEN LET current_value ==
             get_camera_control_value(dv, camera, effect.effect_type,
                                      io.get_ok)
           other == CHOOSE k \in EffectType : k # effect.effect_type
           w == set_camera_control(dv, camera, other, current_value.value,
                                   io.set_ok)
       IN IF current_value.ok
          THEN [calls |-> << Call("get", camera, effect.effect_type,
                                  current_value.value, TRUE),
                             Call("set", camera, other, current_value.value,
                                  w.ok) >>,
                devval |-> w.devval]
          ELSE [calls |-> << Call("get", camera, effect.effect_type,
                                  current_value.value, FALSE) >>,
                devval |-> dv]
  ELSE [calls |-> <<>>, devval |-> dv]

\* Variant: the value written is the successor of the value read.
ApplyOne_WriteNext(camera, ctrls, dv, effect, io) ==
  IF effect.enabled /\ effect.effect_type \in DOMAIN ctrls
  THEN LET current_value ==
             get_camera_control_value(dv, camera, effect.effect_type,
                                      io.get_ok)
           v == (current_value.value + 1) % (MaxValue + 1)
           w == set_camera_control(dv, camera, effect.effect_type, v,
                                   io.set_ok)
       IN IF current_value.ok
          THEN [calls |-> << Call("get", camera, effect.effect_type,
                                  current_value.value, TRUE),
                             Call("set", camera, effect.effect_type, v,
                                  w.ok) >>,
                devval |-> w.devval]
          ELSE [calls |-> << Call("get", camera, effect.effect_type,
                                  current_value.value, FALSE) >>,
                devval |-> dv]
  ELSE [calls |-> <<>>, devval |-> dv]

\* Variant: the enabled flag is not looked at.
ApplyOne_IgnoreEnabled(camera, ctrls, dv, effect, io) ==
  IF effect.effect_type \in DOMAIN ctrls
  THEN Reapply(camera, dv, effect.effect_type, io)
  ELSE [calls |-> <<>>, devval |-> dv]

\* The body of the loop of apply_all_effects for one effect.
ApplyOne(camera, ctrls, dv, effect, io) ==
  IF effect.enabled /\ effect.effect_type \in DOMAIN ctrls
  THEN Reapply(camera, dv, effect.effect_type, io)
  ELSE [calls |-> <<>>, devval |-> dv]

\* The loop of apply_all_effects over the snapshot effs; out[i] is how the
\* backend behaves for the i-th effect.
RECURSIVE ApplyLoop(_, _, _, _, _, _)
ApplyLoop(camera, ctrls, dv, effs, out, acc) ==
  IF effs = <<>> THEN [calls |-> acc, devval |-> dv]
  ELSE LET r == ApplyOne(camera, ctrls, dv, Head(effs), Head(out))
       IN ApplyLoop(camera, ctrls, r.devval, Tail(effs), Tail(out),
                    acc \o r.calls)

apply_all_effects(camera, ctrls, dv, effs, out) ==
  IF camera = NoCamera THEN [calls |-> <<>>, devval |-> dv]
  ELSE ApplyLoop(camera, ctrls, dv, get_all_effects(effs).ret.val, out, <<>>)

\* The catalog the handlers see: current_camera.controls.
CurrentControls == IF current_camera = NoCamera THEN EmptyDict
                   ELSE controls[current_camera]

\* The backend behaviours an apply-all pass over effs can meet: one per
\* effect; where the effect is skipped, or the read fails, the unused
\* choices are fixed.
ApplyOutcomes(camera, ctrls, effs) ==
  { out \in [1..Len(effs) -> IO] :
      /\ \A i \in 1..Len(effs) :
        /\ (camera = NoCamera \/ ~effs[i].enabled
            \/ effs[i].effect_type \notin DOMAIN ctrls)
           => (out[i].get_ok /\ out[i].set_ok)
        /\ ~out[i].get_ok => out[i].set_ok
      /\ Cardinality({ i \in 1..Len(effs) :
                         ~out[i].get_ok \/ ~out[i].set_ok }) <= MaxFaults }

\* str.startswith('/dev/video') on the device paths of the model.
StartsWithDevVideo(device_path) == device_path \in {"/dev/video0", "/dev/video2"}

\* refresh_cameras / on_camera_changed: camera becomes the current camera
\* and its catalog is replaced by what the run of the tool yields.
\* ctl is the controls of every device before the selection.
SelectCamera(ctl, camera, run) ==
  IF camera = NoCamera THEN ctl
  ELSE [ctl EXCEPT ![camera] = camera_controls(ctl[camera], run)]

\* Every assignment of a value to each hardware control of each device.
DevStates ==
  { [c \in Cameras |-> IF c = "/dev/video0" THEN a ELSE b] :
      a \in [HwControls("/dev/video0") -> Values],
      b \in [HwControls("/dev/video2") -> Values] }

\* -------------------------------------------------------------------- Init
\* MainWindow.__init__: an empty pipeline, then refresh_cameras(), which
\* selects the first detected camera, if any, and queries its controls.

Init ==
  /\ effects = <<>>
  /\ \E found \in DetectResults :
       /\ cameras = found
       /\ current_camera = IF found = <<>> THEN NoCamera ELSE found[1]
       /\ \E run \in ListCtrlsRuns(IF found = <<>> THEN NoCamera
                                   ELSE found[1]) :
            /\ controls = SelectCamera([c \in Cameras |-> EmptyDict],
                                       IF found = <<>> THEN NoCamera
                                       ELSE found[1], run)
            /\ stdout = run.stdout
  /\ devval \in DevStates
  /\ calls = <<>>
  /\ op = Op("__init__", 0, 0, "")
  /\ ret = RetNone
  /\ streak = 0

\* ----------------------------------------------------- EffectsPanel actions

\* EffectsPanel.add_effect(effect_type): append, then effect_added, which
\* runs MainWindow.on_effect_added.
PanelAddEffect(effect_type, io) ==
  /\ Len(effects) < MaxLen
  /\ LET a == add_effect(effects, Effect(effect_type))
         h == on_effect_added(current_camera, CurrentControls, devval,
                              effect_type, io)
     IN /\ effects' = Canon(a.effects)
        /\ ret' = a.ret
        /\ calls' = <<Call("add_effect", NoCamera, effect_type, 0, TRUE)>>
                    \o h.calls
        /\ devval' = h.devval
  /\ stdout' = <<>>
  /\ op' = Op("EffectsPanel.add_effect", 0, 0, effect_type)
  /\ streak' = 0
  /\ UNCHANGED <<cameras, current_camera, controls>>

\* EffectsPanel.remove_effect(index): look the effect up, remove it, then
\* effect_removed, which runs MainWindow.on_effect_removed.
PanelRemoveEffect(index, io) ==
  /\ LET g == get_effect(effects, index)
     IN IF g.ret.tag = "Effect"
        THEN LET r == remove_effect(effects, index)
                 effect == g.ret.val[1]
                 h == IF r.ret.bool
                      THEN on_effect_removed(current_camera, CurrentControls,
                                             devval, effect, io)
                      ELSE [calls |-> <<>>, devval |-> devval]
             IN /\ effects' = Canon(r.effects)
                /\ ret' = r.ret
                /\ calls' = <<Call("remove_effect", NoCamera,
                                   effect.effect_type, index, r.ret.bool)>>
                            \o h.calls
                /\ devval' = h.devval
        ELSE /\ effects' = g.effects
             /\ ret' = g.ret
             /\ calls' = <<>>
             /\ devval' = devval
  /\ stdout' = <<>>
  /\ op' = Op("EffectsPanel.remove_effect", index, 0, "")
  /\ streak' = 0
  /\ UNCHANGED <<cameras, current_camera, controls>>

\* EffectsPanel.move_effect(from_index, to_index).
PanelMoveEffect(from_index, to_index) ==
  /\ LET m == move_effect(effects, from_index, to_index)
     IN effects' = Canon(m.effects) /\ ret' = m.ret
  /\ calls' = <<>>
  /\ stdout' = <<>>
  /\ op' = Op("EffectsPanel.move_effect", from_index, to_index, "")
  /\ streak' = 0
  /\ UNCHANGED <<cameras, current_camera, controls, devval>>

\* -------------------------------------- EffectsPipeline methods, called
\* on the pipeline itself (demo.py, the tests): no handler runs.

PipelineCall(name, index, r) ==
  /\ effects' = Canon(r.effects)
  /\ ret' = r.ret
  /\ calls' = <<>>
  /\ stdout' = <<>>
  /\ op' = Op(name, index, 0, "")
  /\ streak' = 0
  /\ UNCHANGED <<cameras, current_camera, controls, devval>>

RemoveEffect(index) ==
  PipelineCall("remove_effect", index, remove_effect(effects, index))

\* Variant: toggling re-applies the control of the effect at once.
ToggleEffect_Sync(index) ==
  LET r == toggle_effect(effects, index)
      h == IF r.ret.bool
           THEN on_effect_added(current_camera, CurrentControls, devval,
                                effects[index + 1].effect_type,
                                [get_ok |-> TRUE, set_ok |-> TRUE])
           ELSE [calls |-> <<>>, devval |-> devval]
  IN /\ effects' = Canon(r.effects)
     /\ ret' = r.ret
     /\ calls' = h.calls
     /\ devval' = h.devval
     /\ stdout' = <<>>
     /\ op' = Op("toggle_effect", index, 0, "")
     /\ streak' = 0
     /\ UNCHANGED <<cameras, current_camera, controls>>

ToggleEffect(index) ==
  PipelineCall("toggle_effect", index, toggle_effect(effects, index))

GetEffect(index) ==
  PipelineCall("get_effect", index, get_effect(effects, index))

Clear == PipelineCall("clear", 0, clear(effects))

GetAllEffects == PipelineCall("get_all_effects", 0, get_all_effects(effects))

\* ------------------------------------------------------ MainWindow actions

\* on_camera_changed(index): the user picks another item of the combo box.
\* Variant: selecting a device applies the effects to it at once.
OnCameraChanged_Apply(index, run) ==
  /\ index \in 1..Len(cameras)
  /\ cameras[index] # current_camera
  /\ current_camera' = cameras[index]
  /\ controls' = SelectCamera(controls, cameras[index], run)
  /\ LET h == apply_all_effects(cameras[index],
                                SelectCamera(controls, cameras[index],
                                             run)[cameras[index]],
                                devval, effects,
                                [i \in 1..Len(effects) |->
                                   [get_ok |-> TRUE, set_ok |-> TRUE]])
     IN calls' = h.calls /\ devval' = h.devval
  /\ stdout' = run.stdout
  /\ op' = Op("on_camera_changed", index - 1, 0, "")
  /\ ret' = RetNone
  /\ streak' = 0
  /\ UNCHANGED <<effects, cameras>>

OnCameraChanged(index, run) ==
  /\ index \in 1..Len(cameras)
  /\ cameras[index] # current_camera
  /\ current_camera' = cameras[index]
  /\ controls' = SelectCamera(controls, cameras[index], run)
  /\ calls' = <<>>
  /\ stdout' = run.stdout
  /\ op' = Op("on_camera_changed", index - 1, 0, "")
  /\ ret' = RetNone
  /\ streak' = 0
  /\ UNCHANGED <<effects, cameras, devval>>

\* refresh_cameras: detect_cameras makes new CameraDevice objects (empty
\* catalogs); clearing and refilling the combo box ends with its first item
\* selected: the first camera, or the "No cameras detected" item.
RefreshCameras(found, run) ==
  /\ cameras' = found
  /\ current_camera' = IF found = <<>> THEN NoCamera ELSE found[1]
  /\ controls' = SelectCamera([c \in Cameras |-> EmptyDict],
                              IF found = <<>> THEN NoCamera ELSE found[1], run)
  /\ calls' = <<>>
  /\ stdout' = run.stdout
  /\ op' = Op("refresh_cameras", 0, 0, "")
  /\ ret' = RetNone
  /\ streak' = 0
  /\ UNCHANGED <<effects, devval>>

\* apply_all_effects.
ApplyAllEffects(out) ==
  /\ LET h == apply_all_effects(current_camera, CurrentControls, devval,
                                effects, out)
     IN calls' = h.calls /\ devval' = h.devval
  /\ stdout' = <<>>
  /\ op' = Op("apply_all_effects", 0, 0, "")
  /\ ret' = RetNone
  /\ streak' = IF streak < 2 THEN streak + 1 ELSE 2
  /\ UNCHANGED <<effects, cameras, current_camera, controls>>

\* Variant: the viewer is launched first and the effects are applied after.
OpenPreview_LaunchFirst(out, viewer) ==
  /\ IF current_camera = NoCamera
     THEN calls' = <<>> /\ devval' = devval /\ streak' = 0
     ELSE LET h == apply_all_effects(current_camera, CurrentControls, devval,
                                     effects, out)
          IN /\ calls' = IF StartsWithDevVideo(current_camera) /\ viewer
                         THEN <<Call("Popen", current_camera, "", 0, TRUE)>>
                              \o h.calls
                         ELSE h.calls
             /\ devval' = h.devval
             /\ streak' = IF streak < 2 THEN streak + 1 ELSE 2
  /\ stdout' = <<>>
  /\ op' = Op("open_preview", 0, 0, "")
  /\ ret' = RetNone
  /\ UNCHANGED <<effects, cameras, current_camera, controls>>

\* open_preview: apply all effects, check the device path, launch the first
\* viewer that is installed and starts (viewer = one was launched).
OpenPreview(out, viewer) ==
  /\ IF current_camera = NoCamera
     THEN calls' = <<>> /\ devval' = devval /\ streak' = 0
     ELSE LET h == apply_all_effects(current_camera, CurrentControls, devval,
                                     effects, out)
          IN /\ calls' = IF StartsWithDevVideo(current_camera) /\ viewer
                         THEN h.calls \o <<Call("Popen", current_camera, "",
                                                0, TRUE)>>
                         ELSE h.calls
             /\ devval' = h.devval
             /\ streak' = IF streak < 2 THEN streak + 1 ELSE 2
  /\ stdout' = <<>>
  /\ op' = Op("open_preview", 0, 0, "")
  /\ ret' = RetNone
  /\ UNCHANGED <<effects, cameras, current_camera, controls>>

\* EffectConfigDialog.setup_ui: the slider of the control is built from the
\* descriptor and set to the value read (or the default), then every
\* position the user moves it to is written.  moves: the positions, in
\* order; the dialog is modal, so they all belong to configure_effect.
SliderClamp(ctrl, v) ==
  LET lo == DictGetInt(ctrl, "min", 0)
      hi == DictGetInt(ctrl, "max", 100)
  IN IF v < lo THEN lo ELSE IF v > hi THEN hi ELSE v

EffectConfigDialog(camera, ctrls, dv, effect, io, moves) ==
  IF camera # NoCamera /\ effect.effect_type \in DOMAIN ctrls
  THEN LET control_name == effect.effect_type
           current_value ==
             get_camera_control_value(dv, camera, control_name, io.get_ok)
           getc == Call("get", camera, control_name, current_value.value,
                        current_value.ok)
       IN IF moves = <<>> THEN [calls |-> <<getc>>, devval |-> dv]
          ELSE LET w == set_camera_control(dv, camera, control_name, moves[1],
                                           io.set_ok)
               IN [calls |-> <<getc, Call("set", camera, control_name,
                                          moves[1], w.ok)>>,
                   devval |-> w.devval]
  ELSE [calls |-> <<>>, devval |-> dv]

\* The slider positions a user can move to in one dialog: none, or one that
\* differs from where the slider starts and lies within its range.
SliderMoves(camera, ctrls, dv, effect, io) ==
  IF camera # NoCamera /\ effect.effect_type \in DOMAIN ctrls
  THEN LET ctrl == ctrls[effect.effect_type]
           cur == get_camera_control_value(dv, camera, effect.effect_type,
                                           io.get_ok)
           start == SliderClamp(ctrl, IF cur.ok THEN cur.value
                                      ELSE DictGetInt(ctrl, "default", 0))
       IN {<<>>} \cup { <<v>> : v \in { x \in Values :
                                         x # start /\ SliderClamp(ctrl, x) = x } }
  ELSE {<<>>}

\* configure_effect(effect_index).
ConfigureEffect(effect_index, io) ==
  /\ LET g == get_effect(effects, effect_index)
     IN /\ ret' = g.ret
        /\ IF g.ret.tag = "Effect"
           THEN \E moves \in SliderMoves(current_camera, CurrentControls,
                                         devval, g.ret.val[1], io) :
                  LET h == EffectConfigDialog(current_camera, CurrentControls,
                                              devval, g.ret.val[1], io, moves)
                  IN calls' = h.calls /\ devval' = h.devval
           ELSE calls' = <<>> /\ devval' = devval
  /\ stdout' = <<>>
  /\ op' = Op("configure_effect", effect_index, 0, "")
  /\ streak' = 0
  /\ UNCHANGED <<effects, cameras, current_camera, controls>>

\* -------------------------------------------------------------------- Next

\* The backend behaviours of a handler that touches one control.
OneIO == { io \in IO : ~io.get_ok => io.set_ok }

\* EffectsPipeline.add_effect(Effect(effect_type)), called on the pipeline.
AddEffect(effect_type) ==
  /\ Len(effects) < MaxLen
  /\ LET a == add_effect(effects, Effect(effect_type))
     IN effects' = Canon(a.effects) /\ ret' = a.ret
  /\ calls' = <<>>
  /\ stdout' = <<>>
  /\ op' = Op("add_effect", -1, 0, effect_type)
  /\ streak' = 0
  /\ UNCHANGED <<cameras, current_camera, controls, devval>>

\* EffectsPipeline.add_effect(e) with e = get_effect(index): a caller adds
\* an Effect object that the pipeline already holds.
AddSameEffect(index) ==
  /\ Len(effects) < MaxLen
  /\ get_effect(effects, index).ret.tag = "Effect"
  /\ LET a == add_effect(effects, get_effect(effects, index).ret.val[1])
     IN effects' = Canon(a.effects) /\ ret' = a.ret
  /\ calls' = <<>>
  /\ stdout' = <<>>
  /\ op' = Op("add_effect", index, 0,
              get_effect(effects, index).ret.val[1].effect_type)
  /\ streak' = 0
  /\ UNCHANGED <<cameras, current_camera, controls, devval>>

\* EffectsPipeline.move_effect(from_index, to_index), called on the pipeline.
MoveEffect(from_index, to_index) ==
  /\ LET m == move_effect(effects, from_index, to_index)
     IN effects' = Canon(m.effects) /\ ret' = m.ret
  /\ calls' = <<>>
  /\ stdout' = <<>>
  /\ op' = Op("move_effect", from_index, to_index, "")
  /\ streak' = 0
  /\ UNCHANGED <<cameras, current_camera, controls, devval>>

\* ---------------------------------- a caller of get_all_effects
\* What a caller can do to the list get_all_effects returned to it, held in
\* ret.  The list is the caller's own (list.copy()), its elements are the
\* Effect objects of the pipeline: the same ids.  A caller makes one change
\* to the list, or none, and then one change to an element.

\* The caller holds the list just returned, unchanged so far.
HoldsFreshList == op.name = "get_all_effects" /\ ret.tag = "list"

\* The caller holds the list returned, unchanged or changed once.
HoldsList ==
  /\ ret.tag = "list"
  /\ op.name \in {"get_all_effects", "returned.pop", "returned.append",
                  "returned.reverse"}

CallerStep(name, index, effs, l) ==
  /\ effects' = effs
  /\ ret' = RetList(l)
  /\ calls' = <<>>
  /\ stdout' = <<>>
  /\ op' = Op(name, index, 0, "")
  /\ streak' = 0
  /\ UNCHANGED <<cameras, current_camera, controls, devval>>

\* returned.pop(index)
CallerPop(index) ==
  /\ HoldsFreshList
  /\ 0 <= index /\ index < Len(ret.val)
  /\ CallerStep("returned.pop", index, effects, ListPop(ret.val, index))

\* returned.append(Effect(effect_type)): a new object, with an id of its own.
CallerAppend(effect_type) ==
  /\ HoldsFreshList
  /\ Len(ret.val) < MaxLen
  /\ CallerStep("returned.append", Len(ret.val), effects,
                Append(ret.val,
                       [Effect(effect_type) EXCEPT !.id = MaxLen + 1]))

\* returned.reverse()
CallerReverse ==
  /\ HoldsFreshList
  /\ Len(ret.val) >= 2
  /\ CallerStep("returned.reverse", 0, effects,
                [i \in 1..Len(ret.val) |-> ret.val[Len(ret.val) + 1 - i]])

\* returned[index].enabled = not returned[index].enabled: the object whose
\* field is written is seen wherever it is referenced.
SetEnabled(l, id) ==
  [i \in 1..Len(l) |->
     IF l[i].id = id THEN [l[i] EXCEPT !.enabled = ~l[i].enabled] ELSE l[i]]

CallerSetEnabled(index) ==
  /\ HoldsList
  /\ 0 <= index /\ index < Len(ret.val)
  /\ CallerStep("returned[index].enabled", index,
                SetEnabled(effects, ret.val[index + 1].id),
                SetEnabled(ret.val, ret.val[index + 1].id))

\* The indices of the rows of the panel: a row emits its own index.
Rows == 0..(Len(effects) - 1)

\* The application: the handlers of the panel and of the main window, with
\* the indices its widgets emit, and toggle_effect on the pipeline.
Next ==
  \/ \E effect_type \in EffectType, io \in OneIO :
       PanelAddEffect(effect_type, io)
  \/ \E index \in Rows, io \in OneIO : PanelRemoveEffect(index, io)
  \/ \E from_index \in Rows, to_index \in Rows :
       from_index # to_index /\ PanelMoveEffect(from_index, to_index)
  \/ \E index \in Rows : ToggleEffect(index)
  \/ \E index \in 1..Len(cameras) :
       \E run \in ListCtrlsRuns(cameras[index]) : OnCameraChanged(index, run)
  \/ \E found \in DetectResults :
       \E run \in ListCtrlsRuns(IF found = <<>> THEN NoCamera ELSE found[1]) :
         RefreshCameras(found, run)
  \/ \E out \in ApplyOutcomes(current_camera, CurrentControls, effects) :
       ApplyAllEffects(out)
  \/ \E out \in ApplyOutcomes(current_camera, CurrentControls, effects),
        viewer \in BOOLEAN :
       OpenPreview(out, viewer)
  \/ \E effect_index \in Rows, io \in OneIO :
       ConfigureEffect(effect_index, io)

Spec == Init /\ [][Next]_vars

\* The pipeline on its own, as demo.py and the tests drive it: every method
\* of EffectsPipeline, with every index, and no main window.
InitPipeline ==
  /\ effects = <<>>
  /\ cameras = <<>>
  /\ current_camera = NoCamera
  /\ controls = [c \in Cameras |-> EmptyDict]
  /\ devval \in DevStates
  /\ calls = <<>>
  /\ op = Op("__init__", 0, 0, "")
  /\ ret = RetNone
  /\ streak = 0
  /\ stdout = <<>>

NextPipeline ==
  \/ \E effect_type \in EffectType : AddEffect(effect_type)
  \/ \E index \in Indices : AddSameEffect(index)
  \/ \E index \in Indices : RemoveEffect(index)
  \/ \E from_index \in Indices, to_index \in Indices :
       MoveEffect(from_index, to_index)
  \/ \E index \in Indices : ToggleEffect(index)
  \/ \E index \in Indices : GetEffect(index)
  \/ Clear
  \/ GetAllEffects
  \/ \E index \in Indices : CallerPop(index)
  \/ \E effect_type \in EffectType : CallerAppend(effect_type)
  \/ CallerReverse
  \/ \E index \in Indices : CallerSetEnabled(index)

SpecPipeline == InitPipeline /\ [][NextPipeline]_vars

\* ------------------------------------------------ the descriptor parser
\* get_camera_controls on its own, on every text of up to MaxLines lines:
\* blank lines, lines that do not match, and descriptor lines of two
\* controls with a type label and up to MaxParams key=value pairs.

ParamKeys == {"min", "max", "default"}
TypeLabels == {"int", "INT", "menu"}

\* The key=value pairs of one line: each key at most once, in any order.
ParamLists ==
  UNION { { s \in [1..n -> [key : ParamKeys, value : Values]] :
              \A a, b \in 1..n : a # b => s[a].key # s[b].key } :
          n \in 0..MaxParams }

Lines ==
  {BlankLine, OtherLine}
  \cup { CtrlLine(name, ctrl_type, params) :
           name \in EffectType, ctrl_type \in TypeLabels,
           params \in ParamLists }

\* Descriptor lines with one more pair, whose key is the name of a field
\* the parser sets itself.
FieldKeys == {"name", "type"}

FieldLines ==
  { CtrlLine(name, ctrl_type, Append(params, P(key, value))) :
      name \in EffectType, ctrl_type \in TypeLabels,
      params \in { s \in ParamLists : Len(s) < MaxParams },
      key \in FieldKeys, value \in Values }

Texts ==
  UNION { [1..n -> Lines] : n \in 0..MaxLines }
  \cup { <<line>> : line \in FieldLines }

\* subprocess.run has returned with returncode 0 and the text in stdout.
InitParser ==
  /\ effects = <<>>
  /\ cameras = <<"/dev/video0">>
  /\ current_camera = "/dev/video0"
  /\ controls = [c \in Cameras |-> EmptyDict]
  /\ devval = [c \in Cameras |-> [k \in HwControls(c) |-> 0]]
  /\ calls = <<>>
  /\ op = Op("subprocess.run", 0, 0, "")
  /\ ret = RetNone
  /\ streak = 0
  /\ stdout \in Texts

\* The rest of get_camera_controls: the loop over the lines, and
\* camera.controls = controls.
ParseControls ==
  /\ op.name = "subprocess.run"
  /\ controls' = [controls EXCEPT ![current_camera] =
                    camera_controls(@, [tool |-> TRUE, ok |-> TRUE,
                                        stdout |-> stdout])]
  /\ op' = Op("get_camera_controls", 0, 0, "")
  /\ UNCHANGED <<effects, cameras, current_camera, devval, calls, ret,
                 streak, stdout>>

NextParser == ParseControls

SpecParser == InitParser /\ [][NextParser]_vars

\* ------------------------------------------------- the backend, directly
\* get_camera_controls called again and again on one CameraDevice, as the
\* demo does, by backend instances that find the tool and by instances
\* that do not.

BackendTexts == { t \in Texts : Len(t) <= 1 }

BackendRuns ==
  { [tool |-> FALSE, ok |-> FALSE, stdout |-> <<>>],
    [tool |-> TRUE, ok |-> FALSE, stdout |-> <<>>] }
  \cup { [tool |-> TRUE, ok |-> TRUE, stdout |-> t] : t \in BackendTexts }

\* The outcome of a call, for the record in op.
Outcome(run) ==
  IF ~run.tool THEN "tool missing" ELSE IF ~run.ok THEN "failed" ELSE "ok"

\* camera = CameraDevice('/dev/video0', ...): controls is {}.
InitBackend ==
  /\ effects = <<>>
  /\ cameras = <<"/dev/video0">>
  /\ current_camera = "/dev/video0"
  /\ controls = [c \in Cameras |-> EmptyDict]
  /\ devval = [c \in Cameras |-> [k \in HwControls(c) |-> 0]]
  /\ calls = <<>>
  /\ op = Op("CameraDevice", 0, 0, "")
  /\ ret = RetNone
  /\ streak = 0
  /\ stdout = <<>>

\* backend.get_camera_controls(camera), the catalog it returns in ret.
GetCameraControls(run) ==
  /\ controls' = [controls EXCEPT ![current_camera] = camera_controls(@, run)]
  /\ ret' = RetDict(get_camera_controls(run))
  /\ op' = Op("get_camera_controls", 0, 0, Outcome(run))
  /\ stdout' = run.stdout
  /\ UNCHANGED <<effects, cameras, current_camera, devval, calls, streak>>

NextBackend == \E run \in BackendRuns : GetCameraControls(run)

SpecBackend == InitBackend /\ [][NextBackend]_vars

\* ------------------------------------------- the window with one device
\* The synchronizer on one detected device of any path detect_cameras
\* accepts (a line that starts with '/' and contains '/dev/video') and any
\* listing of one descriptor line of kind int.

DevicePaths == {"/dev/video0", "/mnt/dev/video0"}

DeviceTexts ==
  { <<>> }
  \cup { <<CtrlLine(name, "int", params)>> :
           name \in EffectType, params \in ParamLists }

\* The device holds, for each control its catalog lists with a range, a
\* value within that range.
HoldsWithinRange(ctrls, values) ==
  \A name \in DOMAIN ctrls \cap DOMAIN values :
    ("min" \in DOMAIN ctrls[name] /\ "max" \in DOMAIN ctrls[name]
     /\ ctrls[name]["min"].isint /\ ctrls[name]["max"].isint)
    => /\ ctrls[name]["min"].n <= values[name]
       /\ values[name] <= ctrls[name]["max"].n

\* MainWindow.__init__ with the one device detected and selected.
InitDevice ==
  /\ effects = <<>>
  /\ \E camera \in DevicePaths, text \in DeviceTexts :
       /\ cameras = <<camera>>
       /\ current_camera = camera
       /\ controls = [c \in {camera} |->
                        camera_controls(EmptyDict,
                                        [tool |-> TRUE, ok |-> TRUE,
                                         stdout |-> text])]
       /\ stdout = text
       /\ \E values \in [HwControls(camera) -> Values] :
            /\ HoldsWithinRange(controls[camera], values)
            /\ devval = [c \in {camera} |-> values]
  /\ calls = <<>>
  /\ op = Op("__init__", 0, 0, "")
  /\ ret = RetNone
  /\ streak = 0

NextDevice ==
  \/ \E effect_type \in EffectType, io \in OneIO :
       PanelAddEffect(effect_type, io)
  \/ \E index \in Rows, io \in OneIO : PanelRemoveEffect(index, io)
  \/ \E out \in ApplyOutcomes(current_camera, CurrentControls, effects) :
       ApplyAllEffects(out)
  \/ \E out \in ApplyOutcomes(current_camera, CurrentControls, effects),
        viewer \in BOOLEAN :
       OpenPreview(out, viewer)

SpecDevice == InitDevice /\ [][NextDevice]_vars

\* ================================================================ claims

\* An index outside [0, length) of the pipeline before the call.
OutOfRange(i) == i < 0 \/ i >= Len(effects)

\* What a list looks like position by position: kind and enabled flag.
Strip(effs) ==
  [i \in 1..Len(effs) |->
     [effect_type |-> effs[i].effect_type, enabled |-> effs[i].enabled]]

\* C1: remove_effect, move_effect (either index), toggle_effect and
\* get_effect with an index outside [0, length) leave the pipeline as it was
\* and report failure: False, or None for get_effect.
C1_OutOfRangeIsNoOp ==
  [][ /\ (op'.name = "remove_effect" /\ OutOfRange(op'.index))
         => (effects' = effects /\ ret' = RetBool(FALSE))
      /\ (op'.name = "move_effect"
          /\ (OutOfRange(op'.index) \/ OutOfRange(op'.to_index)))
         => (effects' = effects /\ ret' = RetBool(FALSE))
      /\ (op'.name = "toggle_effect" /\ OutOfRange(op'.index))
         => (effects' = effects /\ ret' = RetBool(FALSE))
      /\ (op'.name = "get_effect" /\ OutOfRange(op'.index))
         => (effects' = effects /\ ret' = RetNone) ]_vars

\* A negative index was refused on a pipeline of two or more effects.
C1_Witness ==
  /\ op.name = "remove_effect" /\ op.index < 0
  /\ Len(effects) >= 2
  /\ ret = RetBool(FALSE)

\* C2: move_effect(a, b) with both indices in range succeeds; the element
\* that was at a is at b, the elements between a and b have shifted by one
\* towards a, every other element is where it was, and without position b
\* the new list is the old list without position a; move_effect(i, i)
\* leaves the list as it was.
C2_MoveIsRemoveThenInsert ==
  [][ (op'.name = "move_effect"
       /\ ~OutOfRange(op'.index) /\ ~OutOfRange(op'.to_index))
      => LET a == op'.index
             b == op'.to_index
             old == Strip(effects)
             new == Strip(effects')
         IN /\ ret' = RetBool(TRUE)
            /\ Len(new) = Len(old)
            /\ new[b + 1] = old[a + 1]
            /\ \A k \in 0..(Len(old) - 1) :
                 k # b =>
                   new[k + 1] = IF a <= k /\ k < b THEN old[k + 2]
                                ELSE IF b < k /\ k <= a THEN old[k]
                                ELSE old[k + 1]
            /\ ListPop(new, b) = ListPop(old, a)
            /\ (a = b => effects' = effects) ]_vars

\* The first of three different effects was moved to the end.
C2_Witness ==
  /\ op.name = "move_effect" /\ op.index = 0 /\ op.to_index = 2
  /\ ret = RetBool(TRUE)
  /\ Len(effects) = 3
  /\ Strip(effects)[1] # Strip(effects)[2]
  /\ Strip(effects)[2] # Strip(effects)[3]
  /\ Strip(effects)[1] # Strip(effects)[3]

\* C3 as stated: a successful toggle_effect(i) flips the enabled flag at
\* position i and leaves every other position as it was.
C3_ToggleChangesOnePosition ==
  [][ (op'.name = "toggle_effect" /\ ~OutOfRange(op'.index))
      => /\ ret' = RetBool(TRUE)
         /\ Len(effects') = Len(effects)
         /\ \A k \in 1..Len(effects) :
              effects'[k] = IF k = op'.index + 1
                            THEN [effects[k] EXCEPT !.enabled = ~@]
                            ELSE effects[k] ]_vars

\* What the code does instead: a successful toggle_effect(i) flips the
\* enabled flag of the Effect object at position i, so of every position
\* that holds that object; the positions that hold another object, the
\* kinds and the order are unchanged.
ToggleChangesOneObject ==
  [][ (op'.name = "toggle_effect" /\ ~OutOfRange(op'.index))
      => /\ ret' = RetBool(TRUE)
         /\ Len(effects') = Len(effects)
         /\ \A k \in 1..Len(effects) :
              effects'[k] = IF effects[k].id = effects[op'.index + 1].id
                            THEN [effects[k] EXCEPT !.enabled = ~@]
                            ELSE effects[k] ]_vars

\* An object held at two positions was toggled next to another object.
ToggleSharedObject ==
  /\ op.name = "toggle_effect" /\ op.index = 0
  /\ ret = RetBool(TRUE)
  /\ Len(effects) = 3
  /\ effects[1].id = effects[2].id
  /\ effects[3].id # effects[1].id
  /\ ~effects[1].enabled /\ ~effects[2].enabled /\ effects[3].enabled

\* ------------------------------------------ the calls of the last handler

IsApply(o) == o.name \in {"apply_all_effects", "open_preview"}

Gets(c) == SelectSeq(c, LAMBDA x : x.call = "get")
Sets(c) == SelectSeq(c, LAMBDA x : x.call = "set")
GetsWithValue(c) == SelectSeq(c, LAMBDA x : x.call = "get" /\ x.ok)

ControlsOf(c) == [i \in 1..Len(c) |-> c[i].control]
TypesOf(effs) == [i \in 1..Len(effs) |-> effs[i].effect_type]
Writes(c) ==
  [i \in 1..Len(Sets(c)) |->
     [control |-> Sets(c)[i].control, value |-> Sets(c)[i].value]]
ReadResults(c) ==
  [i \in 1..Len(Gets(c)) |->
     [control |-> Gets(c)[i].control, ok |-> Gets(c)[i].ok]]

\* The effects an apply-all pass does not skip: enabled, control in catalog.
Eligible(effs, ctrls) ==
  SelectSeq(effs, LAMBDA e : e.enabled /\ e.effect_type \in DOMAIN ctrls)

\* C4 as stated: an apply-all pass with a device selected issues writes for
\* exactly the enabled effects whose control is in the catalog, in pipeline
\* order.
C4_WritesExactlyEligible ==
  (IsApply(op) /\ current_camera # NoCamera)
  => ControlsOf(Sets(calls)) = TypesOf(Eligible(effects, CurrentControls))

\* C4, amended: an apply-all pass with a device selected reads, in pipeline
\* order, exactly the controls of the effects that are enabled and whose
\* control is in the catalog, and writes exactly those whose read returned
\* a value; a disabled effect or one whose control is absent causes neither
\* a read nor a write; every access is to the current device.
C4_ReadsExactlyEligible ==
  (IsApply(op) /\ current_camera # NoCamera)
  => /\ ControlsOf(Gets(calls)) = TypesOf(Eligible(effects, CurrentControls))
     /\ ControlsOf(Sets(calls)) = ControlsOf(GetsWithValue(calls))
     /\ \A i \in 1..Len(calls) :
          calls[i].call \in {"get", "set"} => calls[i].camera = current_camera

\* [A enabled, B disabled, C enabled], all in the catalog: A and C written.
C4_Witness ==
  /\ op.name = "apply_all_effects" /\ current_camera # NoCamera
  /\ Len(effects) = 3
  /\ effects[1].enabled /\ ~effects[2].enabled /\ effects[3].enabled
  /\ effects[1].effect_type = "brightness"
  /\ effects[2].effect_type = "contrast"
  /\ effects[3].effect_type = "brightness"
  /\ effects[2].effect_type \in DOMAIN CurrentControls
  /\ ControlsOf(Sets(calls)) = <<"brightness", "brightness">>

\* C5: when the panel removes an effect while a device is selected and the
\* effect's control is in the catalog, the handler issues no read and exactly
\* one write, to that control of the current device, with the descriptor's
\* default, or 0 when the descriptor has none.
C5_RemoveWritesDefault ==
  (/\ op.name = "EffectsPanel.remove_effect"
   /\ calls # <<>> /\ calls[1].call = "remove_effect" /\ calls[1].ok
   /\ current_camera # NoCamera
   /\ calls[1].control \in DOMAIN CurrentControls)
  => LET d == CurrentControls[calls[1].control]
     IN /\ Len(calls) = 2
        /\ calls[2].call = "set"
        /\ calls[2].camera = current_camera
        /\ calls[2].control = calls[1].control
        /\ calls[2].value = IF "default" \in DOMAIN d THEN d["default"].n
                            ELSE 0

\* An effect on a control with a default of 1 was removed and 1 written.
C5_Witness ==
  /\ op.name = "EffectsPanel.remove_effect"
  /\ Len(calls) = 2 /\ calls[2].call = "set" /\ calls[2].ok
  /\ calls[2].control = "brightness" /\ calls[2].value = 1
  /\ devval[current_camera]["brightness"] = 1

\* C6: when the panel adds an effect while a device is selected and the
\* effect's control is in the catalog, the effect is appended first, then
\* that control is read once and, when the read returns a value, written
\* once with the value read; nothing else is read or written.
C6_AddReadsThenWrites ==
  (/\ op.name = "EffectsPanel.add_effect"
   /\ current_camera # NoCamera
   /\ op.effect_type \in DOMAIN CurrentControls)
  => /\ Len(effects) >= 1
     /\ Strip(effects)[Len(effects)]
          = [effect_type |-> op.effect_type, enabled |-> TRUE]
     /\ Len(calls) >= 2
     /\ calls[1].call = "add_effect" /\ calls[1].control = op.effect_type
     /\ calls[2].call = "get" /\ calls[2].control = op.effect_type
     /\ calls[2].camera = current_camera
     /\ IF calls[2].ok
        THEN /\ Len(calls) = 3
             /\ calls[3].call = "set"
             /\ calls[3].control = op.effect_type
             /\ calls[3].camera = current_camera
             /\ calls[3].value = calls[2].value
        ELSE Len(calls) = 2

\* brightness was added, read as 0 and written back as 0 although its
\* default is 1.
C6_Witness ==
  /\ op.name = "EffectsPanel.add_effect" /\ op.effect_type = "brightness"
  /\ Len(calls) = 3
  /\ calls[2].call = "get" /\ calls[2].ok /\ calls[2].value = 0
  /\ calls[3].call = "set" /\ calls[3].ok /\ calls[3].value = 0

\* C7: in on-add and in apply-all every write follows at once a read of the
\* same control of the same device that returned the value written; so a
\* read that returns no value is followed by no write of that control.
C7_WriteOnlyWhatWasRead ==
  (op.name = "EffectsPanel.add_effect" \/ IsApply(op))
  => \A i \in 1..Len(calls) :
       /\ calls[i].call = "set"
          => /\ i > 1
             /\ calls[i - 1].call = "get" /\ calls[i - 1].ok
             /\ calls[i - 1].control = calls[i].control
             /\ calls[i - 1].camera = calls[i].camera
             /\ calls[i - 1].value = calls[i].value
       /\ (calls[i].call = "get" /\ ~calls[i].ok)
          => (i = Len(calls) \/ calls[i + 1].call # "set")

\* An apply-all pass in which the read of brightness returned no value and
\* contrast was read and written.
C7_Witness ==
  /\ op.name = "apply_all_effects"
  /\ Len(calls) = 3
  /\ calls[1].call = "get" /\ ~calls[1].ok /\ calls[1].control = "brightness"
  /\ calls[2].call = "get" /\ calls[2].ok /\ calls[2].control = "contrast"
  /\ calls[3].call = "set" /\ calls[3].control = "contrast"

\* C8 as stated: the second of two apply-all passes run back to back
\* issues the writes the first issued and leaves the device as the first
\* left it.
C8_SecondPassSameWrites ==
  [][ (streak >= 1 /\ streak' = 2)
      => (Writes(calls') = Writes(calls) /\ devval' = devval) ]_vars

\* C8, amended: the second of two apply-all passes run back to back leaves
\* the device as the first left it, and issues the writes the first issued
\* whenever the same reads return a value in both passes.
C8_SecondPassSameWritesIfSameReads ==
  [][ (streak >= 1 /\ streak' = 2)
      => /\ devval' = devval
         /\ ReadResults(calls') = ReadResults(calls)
            => Writes(calls') = Writes(calls) ]_vars

\* A second pass in a row that wrote brightness and contrast.
C8_Witness ==
  /\ streak = 2
  /\ ControlsOf(Sets(calls)) = <<"brightness", "contrast">>
  /\ \A i \in 1..Len(calls) : calls[i].ok

\* C9: toggle_effect makes no read and no write and leaves the device as it
\* was; the apply-all pass that follows it reads exactly the controls of the
\* effects that are enabled after the toggle.
C9_ToggleLeavesDevice ==
  [][ /\ op'.name = "toggle_effect" => (calls' = <<>> /\ devval' = devval)
      /\ (op.name = "toggle_effect" /\ IsApply(op')
          /\ current_camera # NoCamera)
         => ControlsOf(Gets(calls'))
              = TypesOf(Eligible(effects, CurrentControls)) ]_vars

\* An effect whose control is in the catalog of the current device was
\* disabled by a toggle.
C9_Witness ==
  /\ op.name = "toggle_effect" /\ ret = RetBool(TRUE)
  /\ current_camera # NoCamera
  /\ effects[op.index + 1].effect_type \in DOMAIN CurrentControls
  /\ ~effects[op.index + 1].enabled

\* C10: when a write fails during on-add, on-remove or apply-all, no second
\* write is attempted for that effect in that event and the pipeline keeps
\* the mutation: the added effect is the last element, the removed effect
\* is gone, and apply-all leaves the pipeline as it was.
C10_FailedWriteNoRetryNoRollback ==
  [][ (\E i \in 1..Len(calls') : calls'[i].call = "set" /\ ~calls'[i].ok)
      => /\ op'.name = "EffectsPanel.add_effect"
            => /\ Strip(effects')
                    = Append(Strip(effects),
                             [effect_type |-> op'.effect_type,
                              enabled |-> TRUE])
               /\ Len(Sets(calls')) = 1
         /\ op'.name = "EffectsPanel.remove_effect"
            => /\ Strip(effects') = ListPop(Strip(effects), op'.index)
               /\ Len(Sets(calls')) = 1
         /\ IsApply(op')
            => /\ effects' = effects
               /\ \A c \in EffectType :
                    Cardinality({ i \in 1..Len(calls') :
                                    calls'[i].call = "set"
                                    /\ calls'[i].control = c })
                    <= Cardinality({ j \in 1..Len(effects) :
                                       /\ effects[j].enabled
                                       /\ effects[j].effect_type = c
                                       /\ c \in DOMAIN CurrentControls }) ]_vars

\* The write of on-add failed and the added effect is in the pipeline.
C10_Witness ==
  /\ op.name = "EffectsPanel.add_effect"
  /\ Len(calls) = 3 /\ calls[3].call = "set" /\ ~calls[3].ok
  /\ Len(effects) >= 2
  /\ effects[Len(effects)].effect_type = op.effect_type

\* C11: when a write of on-add, on-remove or apply-all has failed, the
\* apply-all pass that comes next, with every read and write succeeding,
\* leaves the control of the failed write holding the value that write
\* carried.
C11_NextApplyRecovers ==
  [][ \A i \in 1..Len(calls) :
        ( /\ op.name \in {"EffectsPanel.add_effect",
                          "EffectsPanel.remove_effect"} \/ IsApply(op)
          /\ calls[i].call = "set" /\ ~calls[i].ok
          /\ IsApply(op') /\ current_camera # NoCamera
          /\ \A j \in 1..Len(calls') : calls'[j].ok )
        => devval'[current_camera][calls[i].control] = calls[i].value ]_vars

\* The reset of on-remove failed and the device holds another value than
\* the default it was to be reset to.
C11_Witness ==
  /\ op.name = "EffectsPanel.remove_effect"
  /\ Len(calls) = 2 /\ calls[2].call = "set" /\ ~calls[2].ok
  /\ current_camera # NoCamera
  /\ devval[current_camera][calls[2].control] # calls[2].value

\* C12: with no device selected, on-add, on-remove and apply-all make no
\* read and no write and leave the device as it was, while the add appends
\* the effect and the remove takes the effect out of the pipeline.
C12_NoDeviceNoAccess ==
  [][ current_camera' = NoCamera
      => /\ op'.name = "EffectsPanel.add_effect"
            => /\ Strip(effects')
                    = Append(Strip(effects),
                             [effect_type |-> op'.effect_type,
                              enabled |-> TRUE])
               /\ Gets(calls') = <<>> /\ Sets(calls') = <<>>
               /\ devval' = devval
         /\ op'.name = "EffectsPanel.remove_effect"
            => /\ Strip(effects') = ListPop(Strip(effects), op'.index)
               /\ Gets(calls') = <<>> /\ Sets(calls') = <<>>
               /\ devval' = devval
         /\ IsApply(op')
            => (calls' = <<>> /\ effects' = effects /\ devval' = devval) ]_vars

\* An effect was removed from a pipeline of two or more effects with no
\* device selected.
C12_Witness ==
  /\ current_camera = NoCamera
  /\ op.name = "EffectsPanel.remove_effect"
  /\ Len(calls) = 1 /\ calls[1].call = "remove_effect" /\ calls[1].ok
  /\ Len(effects) >= 1

\* The add, remove and apply-all events write only controls that the
\* catalog of the current device lists, and an add appends the effect
\* whether or not the catalog lists its control.
WritesOnlyListedControls ==
  /\ (op'.name \in {"EffectsPanel.add_effect", "EffectsPanel.remove_effect"}
      \/ IsApply(op'))
     => \A i \in 1..Len(calls') :
          calls'[i].call = "set"
          => /\ current_camera' # NoCamera
             /\ calls'[i].control \in DOMAIN controls'[current_camera']
  /\ op'.name = "EffectsPanel.add_effect"
     => Strip(effects')
          = Append(Strip(effects),
                   [effect_type |-> op'.effect_type, enabled |-> TRUE])

\* C13 as stated: an effect can be added whatever the catalog lists, no
\* add, remove or apply-all event writes a control the catalog does not
\* list, and an apply-all pass writes the control of every enabled effect
\* that the catalog lists.
C13_ListedControlIsWritten ==
  [][ /\ WritesOnlyListedControls
      /\ (IsApply(op') /\ current_camera' # NoCamera)
         => \A j \in 1..Len(effects) :
              (effects[j].enabled
               /\ effects[j].effect_type \in DOMAIN CurrentControls)
              => \E i \in 1..Len(calls') :
                   /\ calls'[i].call = "set"
                   /\ calls'[i].control = effects[j].effect_type ]_vars

\* C13, amended: an effect can be added whatever the catalog lists, no add,
\* remove or apply-all event writes a control the catalog does not list,
\* and an apply-all pass reads the control of every enabled effect that the
\* catalog lists and writes it when the read returns a value.
C13_ListedControlIsReadThenWritten ==
  [][ /\ WritesOnlyListedControls
      /\ (IsApply(op') /\ current_camera' # NoCamera)
         => \A j \in 1..Len(effects) :
              (effects[j].enabled
               /\ effects[j].effect_type \in DOMAIN CurrentControls)
              => \E i \in 1..Len(calls') :
                   /\ calls'[i].call = "get"
                   /\ calls'[i].control = effects[j].effect_type
                   /\ calls'[i].ok
                      => /\ i < Len(calls')
                         /\ calls'[i + 1].call = "set"
                         /\ calls'[i + 1].control = effects[j].effect_type ]_vars

\* An effect was added on a device that has its control while the catalog
\* of the device (its query failed) does not list it: nothing was read or
\* written.
C13_Witness ==
  /\ op.name = "EffectsPanel.add_effect"
  /\ current_camera # NoCamera
  /\ op.effect_type \in HwControls(current_camera)
  /\ op.effect_type \notin DOMAIN CurrentControls
  /\ Len(calls) = 1
  /\ effects[Len(effects)].effect_type = op.effect_type

\* The lists that hold the elements of effs in another order.
Reorderings(effs) ==
  { [i \in 1..Len(effs) |-> effs[f[i]]] :
      f \in { g \in [1..Len(effs) -> 1..Len(effs)] :
                \A a, b \in 1..Len(effs) : a # b => g[a] # g[b] } }

\* C14: from the device state and catalog at hand, the apply-all passes
\* over the pipeline and over every reordering of it (the pipeline itself
\* is one of them) all end in one and the same device state, whatever the
\* backend does in each pass.
C14_OrderDoesNotMatter ==
  current_camera # NoCamera
  => \A p \in Reorderings(effects) :
       \A o \in ApplyOutcomes(current_camera, CurrentControls, p) :
         apply_all_effects(current_camera, CurrentControls, devval,
                           p, o).devval
         = apply_all_effects(current_camera, CurrentControls, devval,
                             effects,
                             [i \in 1..Len(effects) |->
                                [get_ok |-> TRUE, set_ok |-> TRUE]]).devval

\* An apply-all pass wrote two controls that hold different values.
C14_Witness ==
  /\ IsApply(op)
  /\ ControlsOf(Sets(calls)) \in {<<"brightness", "contrast">>,
                                  <<"contrast", "brightness">>}
  /\ \A i \in 1..Len(calls) : calls[i].ok
  /\ devval[current_camera]["brightness"]
       # devval[current_camera]["contrast"]

\* C15: a viewer is launched only by open_preview, as its last call, after
\* an apply-all pass over the whole current pipeline: the calls before the
\* launch read every enabled effect whose control the catalog lists, in
\* pipeline order, and write what was read, and the pipeline is not changed
\* by the step.
C15_ApplyBeforeLaunch ==
  [][ \A i \in 1..Len(calls') :
        calls'[i].call = "Popen"
        => /\ op'.name = "open_preview"
           /\ i = Len(calls')
           /\ effects' = effects
           /\ current_camera' # NoCamera
           /\ ControlsOf(Gets(SubSeq(calls', 1, i - 1)))
                = TypesOf(Eligible(effects', controls'[current_camera']))
           /\ ControlsOf(Sets(SubSeq(calls', 1, i - 1)))
                = ControlsOf(GetsWithValue(SubSeq(calls', 1, i - 1))) ]_vars

\* A viewer was launched after a pass that read and wrote two controls.
C15_Witness ==
  /\ op.name = "open_preview"
  /\ Len(calls) = 5 /\ calls[5].call = "Popen"
  /\ ControlsOf(Sets(calls)) \in {<<"brightness", "contrast">>,
                                  <<"contrast", "brightness">>}

\* The changes a caller makes to the list get_all_effects returned.
ThroughReturnedList ==
  {"returned.pop", "returned.append", "returned.reverse",
   "returned[index].enabled"}

\* C16: no change a caller makes through the list get_all_effects returned,
\* or through the elements of that list, changes the membership, the order
\* or the enabled flags of the pipeline.
C16_ReturnedListIsByValue ==
  [][ op'.name \in ThroughReturnedList
      => Strip(effects') = Strip(effects) ]_vars

\* What the copy does give: deleting from, appending to and reordering the
\* returned list leave the pipeline as it was.
ReturnedListIsACopy ==
  [][ op'.name \in {"returned.pop", "returned.append", "returned.reverse"}
      => effects' = effects ]_vars

\* A caller changed the enabled flag of an element of the returned list and
\* the pipeline holds that element.
C16_Witness ==
  /\ op.name = "returned[index].enabled"
  /\ \E i \in 1..Len(effects) : effects[i].id = ret.val[op.index + 1].id

\* C17: remove_effect(index) with an index in range takes out exactly the
\* element at that index, keeps the others in their order, shortens the
\* pipeline by one and returns the element taken out; with an index out of
\* range it changes nothing and reports failure.
C17_RemoveReturnsElement ==
  [][ op'.name = "remove_effect"
      => IF OutOfRange(op'.index)
         THEN effects' = effects /\ ret' = RetBool(FALSE)
         ELSE /\ Strip(effects') = ListPop(Strip(effects), op'.index)
              /\ Len(effects') = Len(effects) - 1
              /\ ret'.tag = "Effect"
              /\ Strip(ret'.val) = <<Strip(effects)[op'.index + 1]>> ]_vars

\* What remove_effect does: the same, but the value returned for an index
\* in range is True.
RemoveReturnsTrue ==
  [][ op'.name = "remove_effect"
      => IF OutOfRange(op'.index)
         THEN effects' = effects /\ ret' = RetBool(FALSE)
         ELSE /\ Strip(effects') = ListPop(Strip(effects), op'.index)
              /\ Len(effects') = Len(effects) - 1
              /\ ret' = RetBool(TRUE) ]_vars

\* An element that was not the last was removed from a pipeline of three.
C17_Witness ==
  /\ op.name = "remove_effect" /\ op.index = 0
  /\ Len(effects) = 2
  /\ ret = RetBool(TRUE)

\* C18: add_effect returns normally and appends the effect as the last
\* element: the pipeline is one longer, the elements before the last are
\* the elements it had, in their order, and the last has the kind (and the
\* flag) of the effect handed in, whether or not the kind was present.
C18_AddAppends ==
  [][ op'.name = "add_effect"
      => /\ ret' = RetNone
         /\ Len(effects') = Len(effects) + 1
         /\ SubSeq(effects', 1, Len(effects)) = effects
         /\ effects'[Len(effects')].effect_type = op'.effect_type
         /\ effects'[Len(effects')].enabled
              = IF op'.index = -1 THEN TRUE
                ELSE effects[op'.index + 1].enabled ]_vars

\* A new effect of a kind the pipeline already held was added: both
\* occurrences are in the pipeline, as two objects.
C18_Witness ==
  /\ op.name = "add_effect" /\ op.index = -1
  /\ Len(effects) >= 2
  /\ \E i \in 1..(Len(effects) - 1) :
       /\ effects[i].effect_type = effects[Len(effects)].effect_type
       /\ effects[i].id # effects[Len(effects)].id

\* A line of the text, as the claims about the parser speak of it.
HasParam(line, key) ==
  \E i \in 1..Len(line.params) : line.params[i].key = key

\* The value a line supplies for a key (the last one, if it repeats).
ParamOf(line, key) ==
  line.params[CHOOSE i \in 1..Len(line.params) :
                /\ line.params[i].key = key
                /\ \A j \in (i + 1)..Len(line.params) :
                     line.params[j].key # key].value

\* A descriptor line of an integer-valued kind.
IsIntegerLine(line) ==
  line.form = "ctrl" /\ Lower(line.ctrl_type) \in INTEGER_CONTROL_TYPES

\* A descriptor line that yields a catalog entry.
Retained(line) ==
  /\ line.form = "ctrl"
  /\ IsIntegerLine(line) => (HasParam(line, "min") /\ HasParam(line, "max"))

\* A descriptor line of an integer-valued kind that supplies min > max.
Inverted(line) ==
  /\ IsIntegerLine(line)
  /\ HasParam(line, "min") /\ HasParam(line, "max")
  /\ ParamOf(line, "min") > ParamOf(line, "max")

\* controls when the loop has processed the first i lines of the text.
ControlsAfter(i) == ParseLines(EmptyDict, SubSeq(stdout, 1, i))

\* The catalog holds the descriptor of the line with min and max swapped
\* and every other field as the line supplies it.
StoredSwapped(catalog, line) ==
  /\ line.name \in DOMAIN catalog
  /\ LET control == catalog[line.name]
     IN /\ DOMAIN control
             = {"type", "name"}
               \cup { line.params[i].key : i \in 1..Len(line.params) }
        /\ control["min"] = IntV(ParamOf(line, "max"))
        /\ control["max"] = IntV(ParamOf(line, "min"))
        /\ \A k \in DOMAIN control \ {"min", "max"} :
             control[k] = IF HasParam(line, k) THEN IntV(ParamOf(line, k))
                          ELSE IF k = "type" THEN StrV(line.ctrl_type)
                          ELSE StrV(line.name)

\* C19: the descriptor of every line of an integer-valued kind that
\* supplies min > max is put in the catalog with min and max swapped and
\* its other fields as supplied: the catalog holds it so when the line has
\* been processed, and at the end unless a later line names the same
\* control.
C19_InvertedIsStoredSwapped ==
  op.name = "get_camera_controls"
  => \A i \in 1..Len(stdout) :
       Inverted(stdout[i])
       => /\ StoredSwapped(ControlsAfter(i), stdout[i])
          /\ (\A j \in (i + 1)..Len(stdout) :
                stdout[j].form = "ctrl" => stdout[j].name # stdout[i].name)
             => StoredSwapped(CurrentControls, stdout[i])

\* A line with min=1 max=0 and a default was parsed: the catalog holds
\* min=0 max=1 and the default.
C19_Witness ==
  /\ op.name = "get_camera_controls"
  /\ Len(stdout) >= 1
  /\ Inverted(stdout[1]) /\ HasParam(stdout[1], "default")
  /\ StoredSwapped(CurrentControls, stdout[1])
  /\ CurrentControls[stdout[1].name]["min"].n
       < CurrentControls[stdout[1].name]["max"].n

\* A descriptor line of an integer-valued kind without min or without max.
MissingBound(line) ==
  /\ IsIntegerLine(line)
  /\ ~HasParam(line, "min") \/ ~HasParam(line, "max")

\* C20 as stated: the control named on a descriptor line of an
\* integer-valued kind that lacks min or max is not in the catalog, and the
\* control of every line that is retained is.
C20_MissingBoundIsAbsent ==
  op.name = "get_camera_controls"
  => /\ \A i \in 1..Len(stdout) :
          MissingBound(stdout[i])
          => stdout[i].name \notin DOMAIN CurrentControls
     /\ \A j \in 1..Len(stdout) :
          Retained(stdout[j]) => stdout[j].name \in DOMAIN CurrentControls

\* C20, amended: such a line adds nothing to the catalog: the catalog is
\* the one built from the text without the line, so the control it names
\* is in the catalog only when another line that is retained names it; and
\* the control of every line that is retained is in the catalog.
C20_MissingBoundAddsNothing ==
  op.name = "get_camera_controls"
  => /\ \A i \in 1..Len(stdout) :
          MissingBound(stdout[i])
          => /\ CurrentControls = ParseLines(EmptyDict, ListPop(stdout, i - 1))
             /\ stdout[i].name \in DOMAIN CurrentControls
                => \E j \in 1..Len(stdout) :
                     /\ j # i
                     /\ Retained(stdout[j])
                     /\ stdout[j].name = stdout[i].name
     /\ \A j \in 1..Len(stdout) :
          Retained(stdout[j]) => stdout[j].name \in DOMAIN CurrentControls

\* A line of an integer-valued kind without max was dropped and the line
\* after it, for another control, is in the catalog.
C20_Witness ==
  /\ op.name = "get_camera_controls"
  /\ Len(stdout) = 2
  /\ MissingBound(stdout[1]) /\ HasParam(stdout[1], "min")
  /\ Retained(stdout[2]) /\ stdout[2].name # stdout[1].name
  /\ DOMAIN CurrentControls = {stdout[2].name}

\* A descriptor of the catalog whose type field is the label of an
\* integer-valued kind: int, integer or int64 in any case.
IsIntegerDescriptor(control) ==
  /\ ~control["type"].isint
  /\ Lower(control["type"].s) \in INTEGER_CONTROL_TYPES

\* C21: in the catalog stored on every device, each descriptor of an
\* integer-valued kind has min and max, with min <= max.
C21_IntegerDescriptorsHaveRange ==
  \A camera \in DOMAIN controls :
    \A name \in DOMAIN controls[camera] :
      IsIntegerDescriptor(controls[camera][name])
      => /\ "min" \in DOMAIN controls[camera][name]
         /\ "max" \in DOMAIN controls[camera][name]
         /\ controls[camera][name]["min"].isint
         /\ controls[camera][name]["max"].isint
         /\ controls[camera][name]["min"].n <= controls[camera][name]["max"].n

\* A catalog was stored from a text with a line labelled INT that lacks a
\* bound and a line of the other control labelled int that has both: the
\* catalog holds the second only.
C21_Witness ==
  /\ op.name = "get_camera_controls"
  /\ Len(stdout) = 2
  /\ stdout[1].form = "ctrl" /\ stdout[1].ctrl_type = "INT"
  /\ MissingBound(stdout[1])
  /\ stdout[2].form = "ctrl" /\ stdout[2].ctrl_type = "int"
  /\ stdout[2].name # stdout[1].name
  /\ DOMAIN CurrentControls = {stdout[2].name}
  /\ IsIntegerDescriptor(CurrentControls[stdout[2].name])

\* C22: after every call of get_camera_controls on a device, whatever its
\* outcome, the catalog stored on the device is the catalog the call
\* returned.
C22_StoredIsReturned ==
  op.name = "get_camera_controls" /\ ret.tag = "dict"
  => CurrentControls = ret.val[1]

\* A call by a backend without the tool has returned the empty catalog for
\* a device that had a catalog of one control.
C22_Witness ==
  /\ op.name = "get_camera_controls"
  /\ op.effect_type = "tool missing"
  /\ ret = RetDict(EmptyDict)
  /\ CurrentControls # EmptyDict

\* With the tool found, the stored catalog is the returned one.
StoredIsReturnedWithTool ==
  op.name = "get_camera_controls" /\ ret.tag = "dict"
  /\ op.effect_type # "tool missing"
  => CurrentControls = ret.val[1]

\* The lines of the text that are accepted and name the control.
AcceptedLines(name) ==
  { i \in 1..Len(stdout) : Retained(stdout[i]) /\ stdout[i].name = name }

\* The last of them.
LastAccepted(name) ==
  CHOOSE i \in AcceptedLines(name) : \A j \in AcceptedLines(name) : j <= i

\* C23: when several accepted descriptor lines of a text name the same
\* control, the catalog has one entry for the name and it is the
\* descriptor of the last such line alone: no field of an earlier line is
\* in it.
C23_LastLineWins ==
  op.name = "get_camera_controls"
  => \A name \in EffectType :
       IF AcceptedLines(name) = {} THEN name \notin DOMAIN CurrentControls
       ELSE /\ name \in DOMAIN CurrentControls
            /\ CurrentControls[name]
                 = ParseLine(EmptyDict, stdout[LastAccepted(name)])[name]
            /\ DOMAIN CurrentControls[name]
                 = {"type", "name"}
                   \cup { k \in ParamKeys :
                            HasParam(stdout[LastAccepted(name)], k) }

\* Two accepted lines named the same control, the first with a default and
\* the second without: the catalog entry has no default.
C23_Witness ==
  /\ op.name = "get_camera_controls"
  /\ Len(stdout) = 2
  /\ Retained(stdout[1]) /\ Retained(stdout[2])
  /\ stdout[1].name = stdout[2].name
  /\ HasParam(stdout[1], "default") /\ ~HasParam(stdout[2], "default")
  /\ stdout[1].ctrl_type # stdout[2].ctrl_type
  /\ "default" \notin DOMAIN CurrentControls[stdout[2].name]
  /\ CurrentControls[stdout[2].name]["type"] = StrV(stdout[2].ctrl_type)

\* The catalog holds the descriptor of the line as the line was parsed:
\* its name, its type label and each key with the value the line supplies,
\* nothing swapped and nothing added.
StoredAsParsed(catalog, line) ==
  /\ line.name \in DOMAIN catalog
  /\ LET control == catalog[line.name]
     IN /\ DOMAIN control
             = {"type", "name"}
               \cup { line.params[i].key : i \in 1..Len(line.params) }
        /\ \A k \in DOMAIN control :
             control[k] = IF HasParam(line, k) THEN IntV(ParamOf(line, k))
                          ELSE IF k = "type" THEN StrV(line.ctrl_type)
                          ELSE StrV(line.name)

\* C24: only the kinds labelled int, integer or int64, in any case, are
\* validated: the descriptor of a line of any other kind is put in the
\* catalog as parsed, with or without min and max and with min > max too.
\* The catalog holds it so when the line has been processed, and at the end
\* unless a later line names the same control; a line of an integer kind
\* is dropped or swapped when its range is missing or inverted.
C24_OtherKindsStoredAsParsed ==
  op.name = "get_camera_controls"
  => \A i \in 1..Len(stdout) :
       /\ (stdout[i].form = "ctrl" /\ ~IsIntegerLine(stdout[i]))
          => /\ StoredAsParsed(ControlsAfter(i), stdout[i])
             /\ (\A j \in (i + 1)..Len(stdout) :
                   stdout[j].form = "ctrl" => stdout[j].name # stdout[i].name)
                => StoredAsParsed(CurrentControls, stdout[i])
       /\ (MissingBound(stdout[i]) \/ Inverted(stdout[i]))
          => ~StoredAsParsed(ControlsAfter(i), stdout[i])

\* A line of kind menu with min=1 max=0 and a line of the other control of
\* kind menu without max were parsed: the catalog holds both as parsed.
C24_Witness ==
  /\ op.name = "get_camera_controls"
  /\ Len(stdout) = 2
  /\ stdout[1].form = "ctrl" /\ stdout[1].ctrl_type = "menu"
  /\ HasParam(stdout[1], "min") /\ HasParam(stdout[1], "max")
  /\ ParamOf(stdout[1], "min") > ParamOf(stdout[1], "max")
  /\ stdout[2].form = "ctrl" /\ stdout[2].ctrl_type = "menu"
  /\ stdout[2].name # stdout[1].name
  /\ HasParam(stdout[2], "min") /\ ~HasParam(stdout[2], "max")
  /\ CurrentControls[stdout[1].name]["min"].n
       > CurrentControls[stdout[1].name]["max"].n
  /\ "max" \notin DOMAIN CurrentControls[stdout[2].name]

\* C29: every descriptor of the catalog has a name field equal to the key
\* it is stored under and a type field equal to the type label of the line
\* it was built from, whatever key=value pairs the line has.
C29_NameAndTypeFields ==
  op.name = "get_camera_controls"
  => \A name \in DOMAIN CurrentControls :
       /\ CurrentControls[name]["name"] = StrV(name)
       /\ CurrentControls[name]["type"]
            = StrV(stdout[LastAccepted(name)].ctrl_type)

\* A line with a pair name=0 was parsed and its descriptor is in the
\* catalog.
C29_Witness ==
  /\ op.name = "get_camera_controls"
  /\ Len(stdout) = 1
  /\ stdout[1].form = "ctrl"
  /\ HasParam(stdout[1], "name")
  /\ stdout[1].name \in DOMAIN CurrentControls
  /\ CurrentControls[stdout[1].name]["name"] = IntV(ParamOf(stdout[1], "name"))

\* The name and type fields are the key and the label when no pair of the
\* line has the key name or type.
NameAndTypeFieldsUnlessSupplied ==
  op.name = "get_camera_controls"
  => \A name \in DOMAIN CurrentControls :
       /\ ~HasParam(stdout[LastAccepted(name)], "name")
          => CurrentControls[name]["name"] = StrV(name)
       /\ ~HasParam(stdout[LastAccepted(name)], "type")
          => CurrentControls[name]["type"]
               = StrV(stdout[LastAccepted(name)].ctrl_type)

\* How many elements of the pipeline have the kind, and how many have the
\* kind and the flag.
CountKind(effs, effect_type) ==
  Cardinality({ i \in 1..Len(effs) : effs[i].effect_type = effect_type })

CountEffect(effs, effect_type, enabled) ==
  Cardinality({ i \in 1..Len(effs) :
                  /\ effs[i].effect_type = effect_type
                  /\ effs[i].enabled = enabled })

\* C30: the length of the pipeline grows by one on add_effect, shrinks by
\* one on a remove_effect that returns True, becomes 0 on clear, and is
\* left alone by a remove_effect that returns False and by move_effect,
\* toggle_effect, get_effect and get_all_effects, which also leave the
\* multiset of effects as it was (toggle_effect changes a flag, of no
\* other effect than the one at the index).
C30_LengthChanges ==
  [][ /\ op'.name = "add_effect" => Len(effects') = Len(effects) + 1
      /\ (op'.name = "remove_effect" /\ ret' = RetBool(TRUE))
         => Len(effects') = Len(effects) - 1
      /\ (op'.name = "remove_effect" /\ ret' # RetBool(TRUE))
         => Len(effects') = Len(effects)
      /\ op'.name = "clear" => Len(effects') = 0
      /\ op'.name \in {"move_effect", "toggle_effect", "get_effect",
                       "get_all_effects"}
         => /\ Len(effects') = Len(effects)
            /\ \A effect_type \in EffectType :
                 CountKind(effects', effect_type)
                   = CountKind(effects, effect_type)
      /\ op'.name \in {"move_effect", "get_effect", "get_all_effects"}
         => \A effect_type \in EffectType, enabled \in BOOLEAN :
              CountEffect(effects', effect_type, enabled)
                = CountEffect(effects, effect_type, enabled) ]_vars

\* A move between two positions of a pipeline of MaxLen effects of both
\* kinds has succeeded and changed the order.
C30_Witness ==
  /\ op.name = "move_effect" /\ op.index # op.to_index
  /\ ret = RetBool(TRUE)
  /\ Len(effects) = MaxLen
  /\ \A effect_type \in EffectType : CountKind(effects, effect_type) >= 1
  /\ effects[op.to_index + 1].effect_type # effects[op.index + 1].effect_type

\* C25: when the panel removes an effect whose control is in the catalog
\* of the current device, the reset to the default (or 0) is written
\* whether the removed effect was enabled or disabled and whether or not
\* an enabled effect of the same kind remains; when the write succeeds the
\* control holds the default although such an effect is still there.
C25_RemoveResetsRegardless ==
  [][ ( /\ op'.name = "EffectsPanel.remove_effect"
        /\ 0 <= op'.index /\ op'.index < Len(effects)
        /\ current_camera # NoCamera
        /\ effects[op'.index + 1].effect_type \in DOMAIN CurrentControls )
      => LET control_name == effects[op'.index + 1].effect_type
             default_value ==
               IF "default" \in DOMAIN CurrentControls[control_name]
               THEN CurrentControls[control_name]["default"].n ELSE 0
         IN /\ Len(effects') = Len(effects) - 1
            /\ Len(Sets(calls')) = 1
            /\ Sets(calls')[1].control = control_name
            /\ Sets(calls')[1].value = default_value
            /\ Sets(calls')[1].ok
               => devval'[current_camera][control_name] = default_value
    ]_vars

\* A brightness effect was removed, the default 1 was written over the 0
\* the device held, and the pipeline still has an enabled brightness
\* effect and a disabled one.
C25_Witness ==
  /\ op.name = "EffectsPanel.remove_effect"
  /\ Len(calls) = 2 /\ calls[1].control = "brightness"
  /\ calls[2].call = "set" /\ calls[2].ok /\ calls[2].value = 1
  /\ devval[current_camera]["brightness"] = 1
  /\ \E i \in 1..Len(effects) :
       effects[i].effect_type = "brightness" /\ effects[i].enabled
  /\ \E i \in 1..Len(effects) :
       effects[i].effect_type = "brightness" /\ ~effects[i].enabled

WithinRange(ctrls, c) ==
  (c.control \in DOMAIN ctrls
   /\ "min" \in DOMAIN ctrls[c.control] /\ "max" \in DOMAIN ctrls[c.control])
  => /\ ctrls[c.control]["min"].n <= c.value
     /\ c.value <= ctrls[c.control]["max"].n

\* C26: every value a handler of the synchronizer writes to a control whose
\* descriptor has min and max lies within [min, max], the default or 0
\* written on removal included.
C26_WritesWithinRange ==
  \A i \in 1..Len(Sets(calls)) : WithinRange(CurrentControls, Sets(calls)[i])

\* The removal of an effect wrote 0 to a control whose descriptor has no
\* default and a min above 0.
C26_Witness ==
  /\ op.name = "EffectsPanel.remove_effect"
  /\ Len(calls) = 2 /\ calls[2].call = "set"
  /\ calls[2].control \in DOMAIN CurrentControls
  /\ "default" \notin DOMAIN CurrentControls[calls[2].control]
  /\ calls[2].value = 0
  /\ CurrentControls[calls[2].control]["min"].n > 0

\* The writes of add and apply-all, which write a value read from the
\* device, are within the range as long as no removal has put a value
\* outside it on the device.
ReadValuesWithinRange ==
  (op.name \in {"EffectsPanel.add_effect", "apply_all_effects",
                "open_preview"}
   /\ HoldsWithinRange(CurrentControls, devval[current_camera]))
  => \A i \in 1..Len(Sets(calls)) : WithinRange(CurrentControls, Sets(calls)[i])

\* C28: open_preview on a device whose path does not start with
\* '/dev/video' launches no viewer and writes no control; with no device
\* selected it does nothing.
C28_InvalidPathNoWrite ==
  [][ op'.name = "open_preview"
      => /\ current_camera = NoCamera
            => (calls' = <<>> /\ devval' = devval)
         /\ (current_camera # NoCamera
             /\ ~StartsWithDevVideo(current_camera))
            => /\ \A i \in 1..Len(calls') : calls'[i].call # "Popen"
               /\ Sets(calls') = <<>>
               /\ devval' = devval ]_vars

\* open_preview on /mnt/dev/video0 has written a control and launched no
\* viewer.
C28_Witness ==
  /\ op.name = "open_preview"
  /\ current_camera = "/mnt/dev/video0"
  /\ Len(Sets(calls)) >= 1 /\ Sets(calls)[1].ok
  /\ \A i \in 1..Len(calls) : calls[i].call # "Popen"

\* On such a device open_preview launches no viewer.
InvalidPathNoViewer ==
  [][ (op'.name = "open_preview" /\ current_camera # NoCamera
       /\ ~StartsWithDevVideo(current_camera))
      => \A i \in 1..Len(calls') : calls'[i].call # "Popen" ]_vars

====
